---- MODULE Spec2Model ----
(***************************************************************************)
(* SHARE disambiguation: the DatabaseStrategy matching passes              *)
(* (share/disambiguation/strategies/database.py) and the identifier        *)
(* normalizer (share/models/identifiers.py).                               *)
(*                                                                         *)
(* Values.  Every scalar value (attribute of a node, column of a row) is a *)
(* tuple of tokens: a name or an id is the tuple of its characters, a URI  *)
(* the tuple of its lexical parts, a primary key a one-token tuple, and    *)
(* Python's None / SQL's NULL is the tuple None.                           *)
(*                                                                         *)
(* graph = [members: the keys of the nodes in the graph,                   *)
(*          node: key -> [id, type, attrs, rels]]; a node removed from the *)
(* graph leaves members and keeps its object.                              *)
(***************************************************************************)
EXTENDS Integers, Sequences, FiniteSets, TLC

VARIABLES graph, store, source, matches, pre, call

vars == <<graph, store, source, matches, pre, call>>

None == <<"<None>">>

Range(s) == {s[i] : i \in DOMAIN s}

\* Python truthiness of a string-or-None value (`if value:`).
Truthy(v) == v # None /\ v # <<>>

\* All orders in which the elements of a finite set can be enumerated.
RECURSIVE Perms(_)
Perms(S) ==
    IF S = {} THEN {<<>>}
    ELSE UNION {{<<x>> \o p : p \in Perms(S \ {x})} : x \in S}

\* Sequences without repetition over S (a batch of nodes handed to a pass).
Batches(S) == UNION {Perms(T) : T \in SUBSET S}

(***************************************************************************)
(* The Match Set (MatchingStrategy base class): node -> set of candidates. *)
(* A candidate is a reference [model, id] to a persisted row.              *)
(***************************************************************************)
Ref(model, id) == [model |-> model, id |-> id]

add_matches(M, node, refs) == [M EXCEPT ![node] = @ \cup refs]

add_match(M, node, ref) == add_matches(M, node, {ref})

get_matches(M, node) == M[node]

has_matches(M, node) == M[node] # {}

\* The row a candidate refers to.
RowOf(st, ref) == CHOOSE row \in st[ref.model] : row.id = ref.id

\* node[name]: an attribute or a relation of the node.
Field(g, n, name) ==
    IF name \in DOMAIN g[n].attrs THEN g[n].attrs[name] ELSE g[n].rels[name]

(***************************************************************************)
(* QueryBuilder / ConstrainedTypeQueryBuilder and _match_query.            *)
(***************************************************************************)
\* model._meta.get_field(name).column
Column(name) ==
    CASE name = "creative_work" -> "creative_work_id"
      [] name = "agent" -> "agent_id"
      [] OTHER -> name

\* '{app_label}.{model_name}'
TypeTag(model_name) == <<"share", model_name>>

\* SQL equality: NULL equals nothing.
SqlEq(a, b) == a # None /\ b # None /\ a = b

\* The mutant joins on the first column only.
JoinsFirstOnly(row, column_names, values, allowedTags) ==
    /\ SqlEq(values[1], row[column_names[1]])
    /\ (allowedTags # {} => row.type \in allowedTags)

\* join_conditions: nodes.c = table.c for every column, AND table.type IN tags.
Joins(row, column_names, values, allowedTags) ==
    /\ \A i \in DOMAIN column_names : SqlEq(values[i], row[column_names[i]])
    /\ (allowedTags # {} => row.type \in allowedTags)

\* The result set of the batched query: one (node_id, row) pair for every
\* virtual row (n.id, *get_values(n)) and table row that satisfy the join.
QueryRows(st, g, nodes, model, column_names, get_values, allowed_models) ==
    {<<g[p[1]].id, p[2]>> :
        p \in {q \in nodes \X st[model] :
                  Joins(q[2], column_names, get_values[q[1]],
                        {TypeTag(m) : m \in allowed_models})}}

\* The mutant rebuilds the Match Set from the rows of the query.
AddRowsFresh(M, g, nodes, model, rows) ==
    [n \in DOMAIN M |->
        {Ref(model, p[2].id) : p \in {q \in rows : q[1] = g[n].id}}]

RECURSIVE AddRows(_, _, _, _, _)
AddRows(M, g, nodes, model, rows) ==
    IF rows = {} THEN M
    ELSE LET p == CHOOSE q \in rows : TRUE
             \* node_map = {n.id: n for n in nodes}
             node == CHOOSE n \in nodes : g[n].id = p[1]
         IN AddRows(add_match(M, node, Ref(model, p[2].id)), g, nodes, model,
                    rows \ {p})

_match_query(M, st, g, nodes, model, column_names, get_values, allowed_models) ==
    IF nodes = {} THEN M
    ELSE AddRows(M, g, nodes, model,
                 QueryRows(st, g, nodes, model, column_names, get_values,
                           allowed_models))

(***************************************************************************)
(* The result of one pass: the Match Set it leaves, and how it ended;      *)
(* `at` is the node the pass was working on when it raised.                 *)
(***************************************************************************)
Done(M) == [matches |-> M, outcome |-> "ok", payload |-> {}, at |-> ""]

Raise(M, exc, payload, at) ==
    [matches |-> M, outcome |-> exc, payload |-> payload, at |-> at]

(***************************************************************************)
(* initial_pass.  IDObfuscator.resolve is not part of the sources at hand: *)
(* an id <<code, "-", pk>> with a known model code and an existing row     *)
(* resolves to that row, anything else is InvalidID.                       *)
(***************************************************************************)
ModelOfCode == [W |-> "work", A |-> "agent"]

\* Whether IDObfuscator.resolve(id) returns a record (else: InvalidID).
Resolvable(st, id) ==
    /\ Len(id) = 3
    /\ id[2] = "-"
    /\ id[1] \in DOMAIN ModelOfCode
    /\ \E row \in st[ModelOfCode[id[1]]] : row.id = <<id[3]>>

Resolve(st, id) == Ref(ModelOfCode[id[1]], <<id[3]>>)

\* str(node.id).startswith('_:')
IsBlankId(id) == Len(id) >= 2 /\ id[1] = "_" /\ id[2] = ":"

RECURSIVE initial_pass_loop(_, _, _, _)
initial_pass_loop(M, st, g, nodes) ==
    IF nodes = <<>> THEN M
    ELSE LET node == Head(nodes)
         IN IF IsBlankId(g[node].id) \/ ~Resolvable(st, g[node].id)
            THEN initial_pass_loop(M, st, g, Tail(nodes))
            ELSE initial_pass_loop(add_match(M, node, Resolve(st, g[node].id)),
                                   st, g, Tail(nodes))

initial_pass(M, st, g, nodes) == Done(initial_pass_loop(M, st, g, nodes))

(***************************************************************************)
(* match_by_attrs                                                          *)
(***************************************************************************)
match_by_attrs(M, st, g, nodes, model, attr_names, allowed_models) ==
    Done(_match_query(M, st, g, Range(nodes), model,
                      [i \in DOMAIN attr_names |-> Column(attr_names[i])],
                      [n \in Range(nodes) |->
                          [i \in DOMAIN attr_names |-> Field(g, n, attr_names[i])]],
                      allowed_models))

(***************************************************************************)
(* match_by_many_to_one                                                    *)
(***************************************************************************)
TheOne(S) == CHOOSE x \in S : TRUE

\* The first relation, in the order of relation_names, with several matches.
FirstAmbiguous(related_matches, relation_names) ==
    LET i == CHOOSE k \in DOMAIN relation_names :
                 /\ Cardinality(related_matches[relation_names[k]]) > 1
                 /\ \A j \in 1..(k - 1) :
                        Cardinality(related_matches[relation_names[j]]) <= 1
    IN relation_names[i]

\* The mutant takes a relation without matches for a failure of the node too.
RECURSIVE many_to_one_loop_strict(_, _, _, _, _)
many_to_one_loop_strict(M, g, nodes, relation_names, node_values) ==
    IF nodes = <<>>
    THEN [raised |-> FALSE, node_values |-> node_values, payload |-> {}, at |-> ""]
    ELSE LET node == Head(nodes)
             related_matches ==
                 [r \in Range(relation_names) |-> get_matches(M, Field(g, node, r))]
         IN IF \A r \in Range(relation_names) : Cardinality(related_matches[r]) = 1
            THEN many_to_one_loop_strict(M, g, Tail(nodes), relation_names,
                     node_values @@
                     (node :> [i \in DOMAIN relation_names |->
                                 TheOne(related_matches[relation_names[i]]).id]))
            ELSE [raised |-> TRUE, node_values |-> node_values,
                  payload |-> UNION {related_matches[r] : r \in Range(relation_names)},
                  at |-> node]

\* The mutant excludes a node as soon as one of its relations has no match,
\* whatever its other relations have.
RECURSIVE many_to_one_loop_lenient(_, _, _, _, _)
many_to_one_loop_lenient(M, g, nodes, relation_names, node_values) ==
    IF nodes = <<>>
    THEN [raised |-> FALSE, node_values |-> node_values, payload |-> {}, at |-> ""]
    ELSE LET node == Head(nodes)
             related_matches ==
                 [r \in Range(relation_names) |-> get_matches(M, Field(g, node, r))]
         IN IF \A r \in Range(relation_names) : Cardinality(related_matches[r]) = 1
            THEN many_to_one_loop_lenient(M, g, Tail(nodes), relation_names,
                     node_values @@
                     (node :> [i \in DOMAIN relation_names |->
                                 TheOne(related_matches[relation_names[i]]).id]))
            ELSE IF \A r \in Range(relation_names) :
                        Cardinality(related_matches[r]) >= 1
                 THEN [raised |-> TRUE, node_values |-> node_values,
                       payload |-> related_matches[
                           FirstAmbiguous(related_matches, relation_names)],
                       at |-> node]
                 ELSE many_to_one_loop_lenient(M, g, Tail(nodes), relation_names,
                                               node_values)

\* The for-loop of match_by_many_to_one: node_values, or the raised signal.
RECURSIVE many_to_one_loop(_, _, _, _, _)
many_to_one_loop(M, g, nodes, relation_names, node_values) ==
    IF nodes = <<>>
    THEN [raised |-> FALSE, node_values |-> node_values, payload |-> {}, at |-> ""]
    ELSE LET node == Head(nodes)
             related_matches ==
                 [r \in Range(relation_names) |-> get_matches(M, Field(g, node, r))]
         IN IF \A r \in Range(relation_names) : Cardinality(related_matches[r]) = 1
            THEN many_to_one_loop(M, g, Tail(nodes), relation_names,
                     node_values @@
                     (node :> [i \in DOMAIN relation_names |->
                                 TheOne(related_matches[relation_names[i]]).id]))
            ELSE IF \E r \in Range(relation_names) :
                        Cardinality(related_matches[r]) > 1
                 THEN [raised |-> TRUE, node_values |-> node_values,
                       payload |-> related_matches[
                           FirstAmbiguous(related_matches, relation_names)],
                       at |-> node]
                 ELSE many_to_one_loop(M, g, Tail(nodes), relation_names,
                                       node_values)

\* The mutant issues the lookup for the nodes gathered so far before raising.
many_to_one_eager(M, st, g, nodes, model, relation_names, allowed_models) ==
    LET loop == many_to_one_loop(M, g, nodes, relation_names, <<>>)
        after == _match_query(M, st, g, DOMAIN loop.node_values, model,
                     [i \in DOMAIN relation_names |-> Column(relation_names[i])],
                     loop.node_values, allowed_models)
    IN IF loop.raised
       THEN Raise(after, "MergeRequired", loop.payload, loop.at)
       ELSE Done(after)

match_by_many_to_one(M, st, g, nodes, model, relation_names, allowed_models) ==
    LET loop == many_to_one_loop(M, g, nodes, relation_names, <<>>)
    IN IF loop.raised
       THEN Raise(M, "MergeRequired", loop.payload, loop.at)
       ELSE Done(_match_query(M, st, g, DOMAIN loop.node_values, model,
                     [i \in DOMAIN relation_names |-> Column(relation_names[i])],
                     loop.node_values, allowed_models))

(***************************************************************************)
(* match_by_one_to_many                                                    *)
(***************************************************************************)
\* model._meta.get_field(relation_name).remote_field.attname
RemoteFkAttr(model, relation_name) ==
    CASE model = "work" -> "creative_work_id"
      [] model = "agent" -> "agent_id"

\* model._meta.concrete_model.objects.filter(id__in=match_ids)
FilterIdIn(st, model, ids) == {Ref(model, row.id) : row \in {x \in st[model] : x.id \in ids}}

RECURSIVE one_to_many_loop(_, _, _, _, _, _)
one_to_many_loop(M, st, g, nodes, model, relation_name) ==
    IF nodes = <<>> THEN M
    ELSE LET node == Head(nodes)
             match_ids ==
                 {RowOf(st, instance)[RemoteFkAttr(model, relation_name)] :
                     instance \in UNION {get_matches(M, related_node) :
                                   related_node \in Field(g, node, relation_name)}}
         IN one_to_many_loop(
                IF match_ids # {}
                THEN add_matches(M, node, FilterIdIn(st, model, match_ids))
                ELSE M,
                st, g, Tail(nodes), model, relation_name)

match_by_one_to_many(M, st, g, nodes, model, relation_name) ==
    Done(one_to_many_loop(M, st, g, nodes, model, relation_name))

(***************************************************************************)
(* match_subjects.  qs.get() raises DoesNotExist (caught) when no row      *)
(* satisfies the lookup and MultipleObjectsReturned (not caught) when      *)
(* several do.                                                             *)
(***************************************************************************)
SubjectScope(st, g, src, node) ==
    IF Field(g, node, "central_synonym") = None
    THEN {row \in st.subject : row.central_synonym_id = None}
    ELSE {row \in st.subject : row.source = src}

\* qs.get(**{field_name: value}) for the fields tried in turn; "skip" is the
\* loop running out of fields.
RECURSIVE subject_fields(_, _, _, _)
subject_fields(g, node, qs, field_names) ==
    IF field_names = <<>> THEN [kind |-> "skip", hits |-> {}]
    ELSE LET value == Field(g, node, Head(field_names))
             hits == {row \in qs : row[Head(field_names)] = value}
         IN IF ~Truthy(value) \/ hits = {}
            THEN subject_fields(g, node, qs, Tail(field_names))
            ELSE IF Cardinality(hits) > 1
                 THEN [kind |-> "multiple", hits |-> hits]
                 ELSE [kind |-> "match", hits |-> hits]

subject_lookup(st, g, src, node) ==
    subject_fields(g, node, SubjectScope(st, g, src, node), <<"uri", "name">>)

RECURSIVE match_subjects(_, _, _, _, _)
match_subjects(M, st, g, src, nodes) ==
    IF nodes = <<>> THEN Done(M)
    ELSE LET node == Head(nodes)
         IN IF Field(g, node, "central_synonym") # None /\ ~Truthy(src)
            THEN match_subjects(M, st, g, src, Tail(nodes))
            ELSE LET found == subject_lookup(st, g, src, node)
                 IN CASE found.kind = "multiple" ->
                            Raise(M, "MultipleObjectsReturned",
                                  {Ref("subject", row.id) : row \in found.hits},
                                  node)
                      [] found.kind = "match" ->
                            match_subjects(
                                add_match(M, node,
                                          Ref("subject", TheOne(found.hits).id)),
                                st, g, src, Tail(nodes))
                      [] OTHER -> match_subjects(M, st, g, src, Tail(nodes))

(***************************************************************************)
(* HumanName (share.util.nameparser, not part of the sources at hand): a   *)
(* name string is split at its comma ("Last, First") or at its blanks      *)
(* ("First ... Last"); full_name is the string as given.                   *)
(***************************************************************************)
\* The words of a string: maximal runs without a blank.
RECURSIVE SplitWords(_, _, _)
SplitWords(str, word, acc) ==
    IF str = <<>>
    THEN IF word = <<>> THEN acc ELSE Append(acc, word)
    ELSE IF Head(str) = " "
         THEN SplitWords(Tail(str), <<>>,
                         IF word = <<>> THEN acc ELSE Append(acc, word))
         ELSE SplitWords(Tail(str), Append(word, Head(str)), acc)

Words(str) == SplitWords(str, <<>>, <<>>)

RECURSIVE JoinWords(_)
JoinWords(ws) ==
    IF ws = <<>> THEN <<>>
    ELSE IF Len(ws) = 1 THEN ws[1]
    ELSE ws[1] \o <<" ">> \o JoinWords(Tail(ws))

HumanName(str) ==
    IF \E k \in DOMAIN str : str[k] = ","
    THEN LET c == CHOOSE k \in DOMAIN str :
                      str[k] = "," /\ \A j \in 1..(k - 1) : str[j] # ","
             before == Words(SubSeq(str, 1, c - 1))
             after == Words(SubSeq(str, c + 1, Len(str)))
         IN [full_name |-> str,
             first |-> IF after = <<>> THEN <<>> ELSE after[1],
             last |-> JoinWords(before)]
    ELSE LET ws == Words(str)
         IN [full_name |-> str,
             first |-> IF ws = <<>> THEN <<>> ELSE ws[1],
             last |-> IF Len(ws) >= 2 THEN ws[Len(ws)] ELSE <<>>]

(***************************************************************************)
(* ComparableAgentWorkRelation                                             *)
(***************************************************************************)
MAX_NAME_LENGTH == 200

\* settings.SHARE_LIMITS['MAX_AGENT_RELATIONS'], scaled to the stores explored.
MAX_AGENT_RELATIONS == 3

\* i(name_part): initial or None
Initial(name_part) == IF name_part # <<>> THEN <<name_part[1]>> ELSE None

_get_name_key(parsed_name, parsed_target) ==
    << parsed_name.full_name = parsed_target.full_name,
       <<parsed_name.first, parsed_name.last>> =
           <<parsed_target.first, parsed_target.last>>,
       <<Initial(parsed_name.first), parsed_name.last>> =
           <<Initial(parsed_target.first), parsed_target.last>> >>

\* ParsedRelationNames(obj, HumanName(cited_as), HumanName(agent name))
ParsedRelationNames(obj, cited_as, agent_name) ==
    [obj |-> obj, cited_as |-> HumanName(cited_as),
     agent_name |-> HumanName(agent_name)]

\* node_names.obj is [node, order_cited, type]; instance_names.obj is a row.
ComparableAgentWorkRelation(node_names, instance_names) ==
    LET name_key == _get_name_key(instance_names.cited_as, node_names.cited_as)
    IN [relation |-> instance_names.obj,
        node |-> node_names.obj.node,
        name_key |-> name_key,
        sort_key |-> name_key \o
            _get_name_key(instance_names.agent_name, node_names.agent_name) \o
            << instance_names.obj.order_cited = node_names.obj.order_cited,
               instance_names.obj.type[2] = node_names.obj.type >>]

\* The mutant accepts every candidate.
valid_match_always(c) == TRUE

valid_match(c) == \E k \in DOMAIN c.name_key : c.name_key[k]

\* Python's order on tuples of booleans (False < True).
KeyGreater(a, b) ==
    \E k \in DOMAIN a :
        /\ a[k] /\ ~b[k]
        /\ \A j \in 1..(k - 1) : a[j] = b[j]

\* sorted(..., key=sort_key, reverse=True): stable, so candidates with equal
\* keys keep the order in which they were enumerated.
\* The mutant sorts ascending (reverse=True left out).
RECURSIVE InsertAsc(_, _)
InsertAsc(sorted, c) ==
    IF sorted = <<>> THEN <<c>>
    ELSE IF KeyGreater(Head(sorted).sort_key, c.sort_key)
         THEN <<c>> \o sorted
         ELSE <<Head(sorted)>> \o InsertAsc(Tail(sorted), c)

RECURSIVE InsertDesc(_, _)
InsertDesc(sorted, c) ==
    IF sorted = <<>> THEN <<c>>
    ELSE IF KeyGreater(c.sort_key, Head(sorted).sort_key)
         THEN <<c>> \o sorted
         ELSE <<Head(sorted)>> \o InsertDesc(Tail(sorted), c)

RECURSIVE SortedDesc(_)
SortedDesc(cs) ==
    IF cs = <<>> THEN <<>>
    ELSE InsertDesc(SortedDesc(SubSeq(cs, 1, Len(cs) - 1)), cs[Len(cs)])

(***************************************************************************)
(* match_agent_work_relations.  The enumeration orders are the database's  *)
(* and Python's to choose: order.work_nodes is the order in which the set  *)
(* work_nodes is iterated, order.nodes[work_node] the order of the work    *)
(* node's agent_relations, order.works[work_node] the order in which       *)
(* get_matches(work_node) is iterated, order.rows[work_node][work] the     *)
(* order in which the queryset of the work's relations yields its rows     *)
(* when it is evaluated for that work node: the queryset has no ORDER BY   *)
(* and is evaluated anew for every work node and work.                     *)
(***************************************************************************)
AgentRelationsOf(st, work) == {row \in st.awr : row.creative_work_id = work.id}

\* len(name) against MAX_NAME_LENGTH; len(None) raises TypeError.
LenCheck(str) ==
    IF str = None THEN "TypeError"
    ELSE IF Len(str) <= MAX_NAME_LENGTH THEN "within" ELSE "over"

\* `len(a) <= MAX and len(b) <= MAX`, `len(a) > MAX or len(b) > MAX`: b is
\* measured only when a is within the bound.
BothWithin(a, b) ==
    IF LenCheck(a) = "within" THEN LenCheck(b) ELSE LenCheck(a)

AgentNameOf(st, r) == RowOf(st, Ref("agent", r.agent_id)).name

RelationFits(st, r) == BothWithin(r.cited_as, AgentNameOf(st, r))

NodeFits(g, node) ==
    BothWithin(Field(g, node, "cited_as"),
               Field(g, Field(g, node, "agent"), "name"))

\* The comprehension that builds relation_names measures every row.
RelationsRaise(st, rows) ==
    \E k \in DOMAIN rows : RelationFits(st, rows[k]) = "TypeError"

\* relation_names: the parsed names of the rows that pass the length bound.
RECURSIVE RelationNames(_, _)
RelationNames(st, rows) ==
    IF rows = <<>> THEN <<>>
    ELSE IF RelationFits(st, Head(rows)) = "within"
         THEN <<ParsedRelationNames(Head(rows), Head(rows).cited_as,
                                    AgentNameOf(st, Head(rows)))>>
              \o RelationNames(st, Tail(rows))
         ELSE RelationNames(st, Tail(rows))

NodeNames(g, node) ==
    ParsedRelationNames(
        [node |-> node, order_cited |-> Field(g, node, "order_cited"),
         type |-> g[node].type],
        Field(g, node, "cited_as"),
        Field(g, Field(g, node, "agent"), "name"))

top_matches(node_names, relation_names) ==
    SortedDesc(SelectSeq(
        [k \in DOMAIN relation_names |->
            ComparableAgentWorkRelation(node_names, relation_names[k])],
        valid_match))

\* The body of `for node in relation_nodes`.
fuzzy_node(M, g, node, relation_names) ==
    CASE NodeFits(g, node) = "TypeError" -> Raise(M, "TypeError", {}, node)
      [] NodeFits(g, node) = "over" -> Done(M)
      [] OTHER ->
            LET top == top_matches(NodeNames(g, node), relation_names)
            IN IF top # <<>>
               THEN Done(add_match(
                        add_match(M, Field(g, node, "agent"),
                                  Ref("agent", top[1].relation.agent_id)),
                        node, Ref("awr", top[1].relation.id)))
               ELSE Done(M)

\* `for node in relation_nodes`
RECURSIVE fuzzy_nodes(_, _, _, _)
fuzzy_nodes(M, g, relation_nodes, relation_names) ==
    IF relation_nodes = <<>> THEN Done(M)
    ELSE LET result == fuzzy_node(M, g, Head(relation_nodes), relation_names)
         IN IF result.outcome # "ok" THEN result
            ELSE fuzzy_nodes(result.matches, g, Tail(relation_nodes),
                             relation_names)

\* `for work in self.get_matches(work_node)`
RECURSIVE fuzzy_works(_, _, _, _, _, _, _)
fuzzy_works(M, st, g, work_node, works, norder, rorder) ==
    IF works = <<>> THEN Done(M)
    ELSE LET work == Head(works)
             Unmatched(n) == ~has_matches(M, n)
             relation_nodes == SelectSeq(norder[work_node], Unmatched)
         IN IF \/ Cardinality(AgentRelationsOf(st, work)) > MAX_AGENT_RELATIONS
               \/ relation_nodes = <<>>
            THEN fuzzy_works(M, st, g, work_node, Tail(works), norder, rorder)
            ELSE IF RelationsRaise(st, rorder[work_node][work])
                 THEN Raise(M, "TypeError", {}, work_node)
                 ELSE LET result == fuzzy_nodes(M, g, relation_nodes,
                                         RelationNames(st,
                                             rorder[work_node][work]))
                      IN IF result.outcome # "ok" THEN result
                         ELSE fuzzy_works(result.matches, st, g, work_node,
                                          Tail(works), norder, rorder)

\* `for work_node in work_nodes`
RECURSIVE fuzzy_work_nodes(_, _, _, _, _, _, _)
fuzzy_work_nodes(M, st, g, work_nodes, norder, worder, rorder) ==
    IF work_nodes = <<>> THEN Done(M)
    ELSE LET result == fuzzy_works(M, st, g, Head(work_nodes),
                                   worder[Head(work_nodes)], norder, rorder)
         IN IF result.outcome # "ok" THEN result
            ELSE fuzzy_work_nodes(result.matches, st, g, Tail(work_nodes),
                                  norder, worder, rorder)

\* order: the enumeration orders the call meets.
match_agent_work_relations(M, st, g, nodes, order) ==
    fuzzy_work_nodes(M, st, g, order.work_nodes, order.nodes, order.works,
                     order.rows)

\* work_nodes = set(n['creative_work'] for n in nodes)
WorkNodesOf(g, nodes) == {Field(g, n, "creative_work") : n \in Range(nodes)}

\* The enumeration orders a call can meet: of the set work_nodes, of each work
\* node's agent_relations, of each work node's candidates, of each work's rows.
WorkNodeOrders(g, nodes) == Perms(WorkNodesOf(g, nodes))

NodeOrders(g, nodes) ==
    {f \in [WorkNodesOf(g, nodes) ->
               UNION {Perms(Field(g, wn, "agent_relations")) :
                         wn \in WorkNodesOf(g, nodes)}] :
        \A wn \in WorkNodesOf(g, nodes) :
            f[wn] \in Perms(Field(g, wn, "agent_relations"))}

WorkOrders(M, g, nodes) ==
    {f \in [WorkNodesOf(g, nodes) ->
               UNION {Perms(M[wn]) : wn \in WorkNodesOf(g, nodes)}] :
        \A wn \in WorkNodesOf(g, nodes) : f[wn] \in Perms(M[wn])}

\* A work over the ceiling is skipped before its rows are enumerated.
RowOrdersOf(st, work) ==
    IF Cardinality(AgentRelationsOf(st, work)) > MAX_AGENT_RELATIONS
    THEN {<<>>}
    ELSE Perms(AgentRelationsOf(st, work))

\* The orders the evaluations for one work node can meet: one per work.
RowOrdersAt(st, works) ==
    {f \in [works -> UNION {RowOrdersOf(st, wk) : wk \in works}] :
        \A wk \in works : f[wk] \in RowOrdersOf(st, wk)}

\* One evaluation of the queryset for every work node and work.
RowOrders(M, st, g, nodes) ==
    {f \in [WorkNodesOf(g, nodes) ->
               UNION {RowOrdersAt(st, M[wn]) : wn \in WorkNodesOf(g, nodes)}] :
        \A wn \in WorkNodesOf(g, nodes) : f[wn] \in RowOrdersAt(st, M[wn])}

Orders(M, st, g, nodes) ==
    [work_nodes : WorkNodeOrders(g, nodes), nodes : NodeOrders(g, nodes),
     works : WorkOrders(M, g, nodes), rows : RowOrders(M, st, g, nodes)]

(***************************************************************************)
(* The world of Spec: one work with two credited agents and two subjects.  *)
(***************************************************************************)
JoS == <<"J", "o", " ", "S">>
JS == <<"J", " ", "S">>
KT == <<"K", " ", "T">>
SJo == <<"S", ",", " ", "J", "o">>

Node(id, type, attrs, rels) ==
    [id |-> id, type |-> type, attrs |-> attrs, rels |-> rels]

BaseNodes ==
    [w |-> Node(<<"W", "-", "W1">>, "creativework", <<>>,
                [agent_relations |-> {"c1", "c2"}]),
     a1 |-> Node(<<"A", "-", "A1">>, "person",
                 [name |-> JoS, location |-> <<"x">>],
                 [work_relations |-> {"c1"}]),
     a2 |-> Node(<<"A", "-", "z", "z">>, "organization",
                 [name |-> KT, location |-> None],
                 [work_relations |-> {"c2"}]),
     c1 |-> Node(<<"_", ":", "c", "1">>, "creator",
                 [cited_as |-> JoS, order_cited |-> <<"0">>],
                 [creative_work |-> "w", agent |-> "a1"]),
     c2 |-> Node(<<"_", ":", "c", "2">>, "contributor",
                 [cited_as |-> KT, order_cited |-> <<"1">>],
                 [creative_work |-> "w", agent |-> "a2"]),
     s1 |-> Node(<<"_", ":", "s", "1">>, "subject",
                 [name |-> <<"B">>, uri |-> <<"u", "1">>, central_synonym |-> None],
                 <<>>),
     s2 |-> Node(<<"_", ":", "s", "2">>, "subject",
                 [name |-> <<"C">>, uri |-> <<>>, central_synonym |-> <<"s1">>],
                 <<>>)]

WorkRow(id) == [id |-> <<id>>, type |-> TypeTag("creativework")]

AgentRow(id, model_name, name, location) ==
    [id |-> <<id>>, type |-> TypeTag(model_name), name |-> name,
     location |-> location]

RelationRow(id, model_name, work, agent, cited_as, order_cited) ==
    [id |-> <<id>>, type |-> TypeTag(model_name), creative_work_id |-> <<work>>,
     agent_id |-> <<agent>>, cited_as |-> cited_as, order_cited |-> <<order_cited>>]

SubjectRow(id, name, uri, central_synonym_id, src) ==
    [id |-> <<id>>, type |-> TypeTag("subject"), name |-> name, uri |-> uri,
     central_synonym_id |-> central_synonym_id, source |-> src]

Src1 == <<"src1">>

BaseStore ==
    [work |-> {WorkRow("W1"), WorkRow("W2")},
     agent |-> {AgentRow("A1", "person", JoS, <<"x">>),
                AgentRow("A2", "person", JoS, <<"y">>),
                AgentRow("A3", "organization", KT, None)},
     awr |-> {RelationRow("R1", "creator", "W1", "A1", JoS, "0"),
              RelationRow("R2", "creator", "W1", "A2", JS, "0"),
              RelationRow("R3", "contributor", "W1", "A3", KT, "1"),
              RelationRow("R4", "creator", "W2", "A1", SJo, "0")},
     subject |-> {SubjectRow("T1", <<"A">>, <<"u", "1">>, None, None),
                  SubjectRow("T2", <<"B">>, <<"u", "2">>, None, None),
                  SubjectRow("T3", <<"C">>, <<"u", "3">>, <<"T1">>, Src1),
                  SubjectRow("T4", <<"C">>, <<"u", "4">>, <<"T2">>, Src1)}]

NoMatches(g) == [n \in DOMAIN g.node |-> {}]

NoCall == [op |-> "none", nodes |-> <<>>, model |-> "", names |-> <<>>,
           allowed |-> {}, env |-> <<>>, outcome |-> "ok", payload |-> {},
           at |-> ""]

Call(op, nodes, model, names, allowed, env, result) ==
    [op |-> op, nodes |-> nodes, model |-> model, names |-> names,
     allowed |-> allowed, env |-> env, outcome |-> result.outcome,
     payload |-> result.payload, at |-> result.at]

\* The caller is between two passes.
Idle == call.op = "none"

\* One whole call of a pass by the caller, who is between two passes: the
\* Match Set is replaced by the one the pass leaves; call records the
\* arguments and how the pass ended, pre the Match Set it was given.
\* env is what the call met besides its arguments: the enumeration orders
\* (match_agent_work_relations), the node's attributes (normalize).
InvokeIn(env, op, nodes, model, names, allowed, result) ==
    /\ matches' = result.matches
    /\ pre' = matches
    /\ call' = Call(op, nodes, model, names, allowed, env, result)
    /\ UNCHANGED <<graph, store, source>>

Invoke(op, nodes, model, names, allowed, result) ==
    InvokeIn(<<>>, op, nodes, model, names, allowed, result)

\* The pass returns to its caller, who goes on to the next pass.  A raised
\* exception propagates instead and ends the run.
Return ==
    /\ call.op # "none"
    /\ call.outcome = "ok"
    /\ call' = NoCall
    /\ pre' = matches
    /\ UNCHANGED <<graph, store, source, matches>>

NodesOfType(types) == {n \in graph.members : graph.node[n].type \in types}

\* A batch whose order does not matter to the pass: one order per subset.
KeyOrder == <<"w", "a1", "a2", "c1", "c2", "s1", "s2">>

InBatch(S) == [k \in Range(KeyOrder) |-> k \in S]

AnyOrder(S) == LET in == InBatch(S)
                   Test(k) == in[k]
               IN SelectSeq(KeyOrder, Test)

Init ==
    /\ \E cited_as \in {KT, None} :
           graph = [members |-> DOMAIN BaseNodes,
                    node |-> [BaseNodes EXCEPT !.c2.attrs.cited_as = cited_as]]
    /\ store = BaseStore
    /\ source \in {None, Src1}
    /\ matches = NoMatches(graph)
    /\ pre = matches
    /\ call = NoCall

InitialPass ==
    /\ Idle
    /\ \E S \in SUBSET NodesOfType({"creativework", "person", "organization", "creator"}) :
        Invoke("initial_pass", AnyOrder(S), "", <<>>, {},
               initial_pass(matches, store, graph.node, AnyOrder(S)))

MatchByAttrs ==
    /\ Idle
    /\ \E S \in SUBSET NodesOfType({"person", "organization"}),
          attr_names \in {<<"name">>, <<"location">>, <<"name", "location">>},
          allowed \in SUBSET {"person", "organization"} :
        Invoke("match_by_attrs", AnyOrder(S), "agent", attr_names, allowed,
               match_by_attrs(matches, store, graph.node, AnyOrder(S), "agent",
                              attr_names, allowed))

MatchByManyToOne ==
    /\ Idle
    /\ \E nodes \in Batches(NodesOfType({"creator", "contributor"})),
          relation_names \in {<<"creative_work">>, <<"agent">>,
                               <<"creative_work", "agent">>,
                               <<"agent", "creative_work">>},
          allowed \in {{}, {"creator"}} :
        Invoke("match_by_many_to_one", nodes, "awr", relation_names, allowed,
               match_by_many_to_one(matches, store, graph.node, nodes, "awr",
                                    relation_names, allowed))

OneToManyWork ==
    /\ Idle
    /\ \E S \in SUBSET NodesOfType({"creativework"}) :
        Invoke("match_by_one_to_many", AnyOrder(S), "work",
               <<"agent_relations">>, {},
               match_by_one_to_many(matches, store, graph.node, AnyOrder(S),
                                    "work", "agent_relations"))

OneToManyAgent ==
    /\ Idle
    /\ \E S \in SUBSET NodesOfType({"person", "organization"}) :
        Invoke("match_by_one_to_many", AnyOrder(S), "agent",
               <<"work_relations">>, {},
               match_by_one_to_many(matches, store, graph.node, AnyOrder(S),
                                    "agent", "work_relations"))

MatchSubjects ==
    /\ Idle
    /\ \E nodes \in Batches(NodesOfType({"subject"})) :
        Invoke("match_subjects", nodes, "subject", <<>>, {},
               match_subjects(matches, store, graph.node, source, nodes))

MatchAgentWorkRelations ==
    /\ Idle
    /\ \E S \in SUBSET NodesOfType({"creator", "contributor"}) :
        \E order \in Orders(matches, store, graph.node, AnyOrder(S)) :
            InvokeIn(order, "match_agent_work_relations", AnyOrder(S), "awr",
                     <<>>, {},
                     match_agent_work_relations(matches, store, graph.node,
                                                AnyOrder(S), order))

Next ==
    \/ InitialPass
    \/ MatchByAttrs
    \/ MatchByManyToOne
    \/ OneToManyWork
    \/ OneToManyAgent
    \/ MatchSubjects
    \/ MatchAgentWorkRelations
    \/ Return

Spec == Init /\ [][Next]_vars

(***************************************************************************)
(* Properties of the matching passes, stated of a call that has just       *)
(* ended: call holds its arguments and outcome, pre the Match Set it was   *)
(* given, matches the Match Set it left.                                   *)
(***************************************************************************)
Called(op) == call.op = op

\* The candidates the node's related node had when the pass was called.
RelatedBefore(n, r) == pre[Field(graph.node, n, r)]

AmbiguousBefore(n) ==
    \E r \in Range(call.names) : Cardinality(RelatedBefore(n, r)) > 1

UnmatchedRelationBefore(n) ==
    \E r \in Range(call.names) : RelatedBefore(n, r) = {}

UnambiguousBefore(n) ==
    \A r \in Range(call.names) : Cardinality(RelatedBefore(n, r)) = 1

\* C1: match_by_many_to_one raises MergeRequired if and only if some node of
\* the batch has a named relation whose related node had more than one
\* candidate in the Match Set, and the signal then carries the candidates of
\* such a relation.
C1_AmbiguityIff ==
    Called("match_by_many_to_one") =>
        /\ (call.outcome = "MergeRequired") <=>
               (\E n \in Range(call.nodes) : AmbiguousBefore(n))
        /\ call.outcome = "MergeRequired" =>
               \E n \in Range(call.nodes), r \in Range(call.names) :
                   /\ Cardinality(RelatedBefore(n, r)) > 1
                   /\ call.payload = RelatedBefore(n, r)
        /\ call.outcome \in {"ok", "MergeRequired"}

\* A batch of two whose second node is the ambiguous one.
C1_Witness ==
    /\ Called("match_by_many_to_one")
    /\ call.outcome = "MergeRequired"
    /\ Len(call.nodes) = 2
    /\ call.at = call.nodes[2]
    /\ Cardinality(call.payload) > 1

\* C2 as stated: a node of the batch with a named relation without candidates
\* gains no match and is not the node at which the pass fails, whatever its
\* other named relations have.
C2_ZeroExcludesAlways ==
    Called("match_by_many_to_one") =>
        \A n \in Range(call.nodes) :
            UnmatchedRelationBefore(n) =>
                /\ matches[n] = pre[n]
                /\ ~(call.outcome = "MergeRequired" /\ call.at = n)

\* C2 as amended: a node of the batch with a named relation without candidates
\* gains no match; the pass does not fail at it when none of its named
\* relations has more than one candidate, and the pass raises MergeRequired
\* when one has.
C2_ZeroExcludesUnlessAmbiguous ==
    Called("match_by_many_to_one") =>
        \A n \in Range(call.nodes) :
            UnmatchedRelationBefore(n) =>
                /\ matches[n] = pre[n]
                /\ ~AmbiguousBefore(n) =>
                       ~(call.outcome = "MergeRequired" /\ call.at = n)
                /\ AmbiguousBefore(n) => call.outcome = "MergeRequired"

\* A pass that ended normally over a batch holding a node with an unmatched
\* relation and a node that gained a match.
C2_Witness ==
    /\ Called("match_by_many_to_one")
    /\ call.outcome = "ok"
    /\ \E n \in Range(call.nodes) : UnmatchedRelationBefore(n)
    /\ \E n \in Range(call.nodes) : matches[n] # pre[n]

\* C10: when match_by_many_to_one raises MergeRequired the Match Set is what
\* it was before the call: no node of the batch has gained a match.
C10_RaiseLeavesMatchSet ==
    (Called("match_by_many_to_one") /\ call.outcome = "MergeRequired") =>
        matches = pre

\* The pass raised at the second node of a batch whose first node had exactly
\* one candidate for every named relation.
C10_Witness ==
    /\ Called("match_by_many_to_one")
    /\ call.outcome = "MergeRequired"
    /\ Len(call.nodes) = 2
    /\ call.at = call.nodes[2]
    /\ UnambiguousBefore(call.nodes[1])
    /\ Len(call.names) = 2

\* The rows of the target type that equal the node on every named attribute
\* (Python's equality: None equals None).
EqualOnAttrs(n, row) ==
    \A k \in DOMAIN call.names :
        row[call.names[k]] = Field(graph.node, n, call.names[k])

\* The same with the values the database can compare: no NULL on either side.
EqualNonNullOnAttrs(n, row) ==
    \A k \in DOMAIN call.names :
        /\ Field(graph.node, n, call.names[k]) # None
        /\ row[call.names[k]] = Field(graph.node, n, call.names[k])

SubtypeAllowed(row) ==
    call.allowed # {} => \E m \in call.allowed : row.type = TypeTag(m)

\* C3 as stated: after match_by_attrs a row of the target type is a new
\* candidate of a node of the batch if and only if it equals the node on every
\* named attribute and its subtype is allowed; other nodes gain nothing.
C3_ExactAttrs ==
    Called("match_by_attrs") =>
        /\ \A n \in Range(call.nodes), row \in store[call.model] :
               (Ref(call.model, row.id) \in matches[n]) <=>
                   \/ Ref(call.model, row.id) \in pre[n]
                   \/ EqualOnAttrs(n, row) /\ SubtypeAllowed(row)
        /\ \A n \in DOMAIN matches \ Range(call.nodes) : matches[n] = pre[n]

\* C3 as amended: ... if and only if, on every named attribute, the node has a
\* value (not None) and the row has the same value, and its subtype is allowed.
C3_ExactNonNullAttrs ==
    Called("match_by_attrs") =>
        /\ \A n \in Range(call.nodes), row \in store[call.model] :
               (Ref(call.model, row.id) \in matches[n]) <=>
                   \/ Ref(call.model, row.id) \in pre[n]
                   \/ EqualNonNullOnAttrs(n, row) /\ SubtypeAllowed(row)
        /\ \A n \in DOMAIN matches \ Range(call.nodes) :
               matches[n] = pre[n]
        /\ \A n \in Range(call.nodes) :
               matches[n] \ pre[n] \subseteq
                   {Ref(call.model, row.id) : row \in store[call.model]}

\* Two attributes named, a batch of two: one node gained a row, and a row that
\* differs from it on exactly one of the attributes was left out.
C3_Witness ==
    /\ Called("match_by_attrs")
    /\ Len(call.names) = 2
    /\ Len(call.nodes) = 2
    /\ \E n \in Range(call.nodes), row \in store[call.model] :
           /\ Ref(call.model, row.id) \in matches[n] \ pre[n]
           /\ \E other \in store[call.model] :
                  /\ other[call.names[1]] = row[call.names[1]]
                  /\ other[call.names[2]] # row[call.names[2]]
                  /\ Ref(call.model, other.id) \notin matches[n]
           /\ \E m \in Range(call.nodes) :
                  Ref(call.model, row.id) \notin matches[m]

\* C4 as stated: match_by_many_to_one is the only pass that raises.
C4_OnlyManyToOneFails ==
    call.outcome # "ok" => Called("match_by_many_to_one")

\* C9: a pass leaves the Graph as it was and only adds to the Match Set.
C9_GraphKeptMatchSetGrows ==
    [][/\ graph' = graph
       /\ \A n \in DOMAIN matches : matches[n] \subseteq matches'[n]]_vars

\* A pass has given a second candidate to a node that had one.
C9_Witness ==
    /\ call.op # "none"
    /\ \E n \in DOMAIN matches :
           /\ pre[n] # {}
           /\ pre[n] # matches[n]
           /\ pre[n] \subseteq matches[n]
    /\ graph.node = BaseNodes

(***************************************************************************)
(* SpecFuzzy: match_agent_work_relations against every small set of        *)
(* existing relations of one work, under every enumeration order.          *)
(***************************************************************************)
MaxRelationRows == 4

LongName == [k \in 1..(MAX_NAME_LENGTH + 1) |-> "x"]

FuzzyNodes(cited_as, agent_name) ==
    [w |-> Node(<<"W", "-", "W1">>, "creativework", <<>>,
                [agent_relations |-> {"c1", "c2"}]),
     a1 |-> Node(<<"_", ":", "a", "1">>, "person", [name |-> JoS],
                 [work_relations |-> {"c1"}]),
     a2 |-> Node(<<"_", ":", "a", "2">>, "organization", [name |-> agent_name],
                 [work_relations |-> {"c2"}]),
     c1 |-> Node(<<"_", ":", "c", "1">>, "creator",
                 [cited_as |-> cited_as, order_cited |-> <<"0">>],
                 [creative_work |-> "w", agent |-> "a1"]),
     c2 |-> Node(<<"_", ":", "c", "2">>, "contributor",
                 [cited_as |-> KT, order_cited |-> <<"1">>],
                 [creative_work |-> "w", agent |-> "a2"])]

RelationUniverse ==
    {RelationRow("R1", "creator", "W1", "A1", JoS, "0"),
     RelationRow("R2", "creator", "W1", "A2", JoS, "0"),
     RelationRow("R3", "creator", "W1", "A3", JS, "0"),
     RelationRow("R4", "contributor", "W1", "A2", SJo, "0"),
     RelationRow("R5", "creator", "W1", "A5", KT, "0"),
     RelationRow("R6", "contributor", "W1", "A3", KT, "1"),
     RelationRow("R7", "creator", "W1", "A4", JoS, "0")}

FuzzyStore(relations) ==
    [work |-> {WorkRow("W1")},
     agent |-> {AgentRow("A1", "person", JoS, None),
                AgentRow("A2", "person", JoS, None),
                AgentRow("A3", "organization", KT, None),
                AgentRow("A4", "person", LongName, None),
                AgentRow("A5", "person", JoS, None)},
     awr |-> relations,
     subject |-> {}]

InitFuzzy ==
    /\ \E cited_as \in {JoS, SJo, LongName, None}, agent_name \in {KT, None} :
           graph = [members |-> DOMAIN FuzzyNodes(cited_as, agent_name),
                    node |-> FuzzyNodes(cited_as, agent_name)]
    /\ \E relations \in SUBSET RelationUniverse :
           /\ Cardinality(relations) <= MaxRelationRows
           /\ store = FuzzyStore(relations)
    /\ source = None
    /\ matches = NoMatches(graph)
    /\ pre = matches
    /\ call = NoCall

NextFuzzy ==
    \/ InitialPass
    \/ MatchAgentWorkRelations
    \/ Return

SpecFuzzy == InitFuzzy /\ [][NextFuzzy]_vars

\* The relation nodes the pass compares: those of the work nodes of the batch
\* that had no candidate, whose names are within the length bound and whose
\* work node had exactly one candidate, the matched work.
IsRelationNode(n) == "cited_as" \in DOMAIN graph.node[n].attrs

Compared(n) ==
    /\ IsRelationNode(n)
    /\ \E m \in Range(call.nodes) :
           Field(graph.node, m, "creative_work") =
               Field(graph.node, n, "creative_work")
    /\ pre[n] = {}
    /\ Cardinality(pre[Field(graph.node, n, "creative_work")]) = 1
    /\ NodeFits(graph.node, n) = "within"

MatchedWork(n) == TheOne(pre[Field(graph.node, n, "creative_work")])

\* The existing relations of the matched work the node is compared with.
CandidatesOf(n) ==
    IF Cardinality(AgentRelationsOf(store, MatchedWork(n))) > MAX_AGENT_RELATIONS
    THEN {}
    ELSE {r \in AgentRelationsOf(store, MatchedWork(n)) :
             RelationFits(store, r) = "within"}

\* The three comparisons of the cited-as names of node and relation.
CitedVector(n, r) ==
    LET a == HumanName(r.cited_as)
        b == HumanName(Field(graph.node, n, "cited_as"))
        ia == IF a.first = <<>> THEN None ELSE <<Head(a.first)>>
        ib == IF b.first = <<>> THEN None ELSE <<Head(b.first)>>
    IN << a.full_name = b.full_name,
          a.first = b.first /\ a.last = b.last,
          ia = ib /\ a.last = b.last >>

SortKeyOf(n, r) ==
    ComparableAgentWorkRelation(
        NodeNames(graph.node, n),
        ParsedRelationNames(r, r.cited_as, AgentNameOf(store, r))).sort_key

ValidFor(n, r) == \E k \in 1..3 : CitedVector(n, r)[k]

FullNameMatch(n, r) == CitedVector(n, r)[1]

InitialOnlyMatch(n, r) == CitedVector(n, r) = <<FALSE, FALSE, TRUE>>

\* The valid candidates no valid candidate outranks.
TopCandidates(n) ==
    {r \in CandidatesOf(n) :
        /\ ValidFor(n, r)
        /\ \A q \in CandidatesOf(n) :
               ValidFor(n, q) => ~KeyGreater(SortKeyOf(n, q), SortKeyOf(n, r))}

\* The relations the pass has recorded for the node.
SelectedFor(n) == {RowOf(store, ref) : ref \in matches[n] \ pre[n]}

\* The position of a row in the order in which the relations were enumerated.
RowsMet(n) ==
    call.env.rows[Field(graph.node, n, "creative_work")][MatchedWork(n)]

EnumeratedAt(n, r) == CHOOSE k \in DOMAIN RowsMet(n) : RowsMet(n)[k] = r

HasFullAndInitialOnly(n) ==
    /\ \E r \in CandidatesOf(n) : FullNameMatch(n, r)
    /\ \E r \in CandidatesOf(n) : InitialOnlyMatch(n, r)

\* C6 as stated, of a pass that ends normally: with a full-name candidate and
\* an initial-only candidate among the relations of the matched work, the
\* relation selected for the node is
\* not the initial-only one: it is the valid candidate with the greatest sort
\* key, the same one in whatever order the relations are enumerated.
C6_TopRankedAnyOrder ==
    (Called("match_agent_work_relations") /\ call.outcome = "ok") =>
        \A n \in DOMAIN matches :
            (Compared(n) /\ HasFullAndInitialOnly(n)) =>
                /\ \E r \in TopCandidates(n) : SelectedFor(n) = {r}
                /\ \A r \in SelectedFor(n) : ~InitialOnlyMatch(n, r)
                /\ \A ro \in RowOrders(pre, store, graph.node, call.nodes) :
                       match_agent_work_relations(pre, store, graph.node,
                           call.nodes, [call.env EXCEPT !.rows = ro]).matches[n]
                           = matches[n]

\* C6 as amended: ... a relation selected for the node is not the initial-only
\* one: it is a valid candidate no valid candidate outranks, and among the
\* candidates of that same greatest sort key it is the one that was enumerated
\* first.  At most one relation is selected, and one is selected whenever the
\* pass ends normally; a pass that raises may have stopped before the node.
C6_TopRankedFirstEnumerated ==
    Called("match_agent_work_relations") =>
        \A n \in DOMAIN matches :
            (Compared(n) /\ HasFullAndInitialOnly(n)) =>
                /\ \A r \in SelectedFor(n) :
                       /\ SelectedFor(n) = {r}
                       /\ r \in TopCandidates(n)
                       /\ \A q \in TopCandidates(n) :
                              EnumeratedAt(n, r) <= EnumeratedAt(n, q)
                       /\ ~InitialOnlyMatch(n, r)
                /\ call.outcome = "ok" => SelectedFor(n) # {}
                /\ call.outcome \in {"ok", "TypeError"}

\* The initial-only candidate was enumerated before the full-name candidate
\* that was selected.
C6_Witness ==
    /\ Called("match_agent_work_relations")
    /\ \E n \in DOMAIN matches :
           /\ Compared(n)
           /\ HasFullAndInitialOnly(n)
           /\ \E r \in SelectedFor(n), q \in CandidatesOf(n) :
                  /\ FullNameMatch(n, r)
                  /\ InitialOnlyMatch(n, q)
                  /\ EnumeratedAt(n, q) < EnumeratedAt(n, r)

\* C7: match_agent_work_relations records for a relation node only relations
\* whose cited-as name equals the node's in at least one of the three
\* comparisons, and for its agent node only the agent of such a relation
\* recorded for the relation node.
C7_ValidityGate ==
    Called("match_agent_work_relations") =>
        \A n \in DOMAIN matches :
            IF IsRelationNode(n)
            THEN \A ref \in matches[n] \ pre[n] :
                     /\ ref.model = "awr"
                     /\ ValidFor(n, RowOf(store, ref))
            ELSE \A ref \in matches[n] \ pre[n] :
                     \E m \in DOMAIN matches :
                         /\ IsRelationNode(m)
                         /\ Field(graph.node, m, "agent") = n
                         /\ \E r \in SelectedFor(m) :
                                /\ ValidFor(m, r)
                                /\ ref = Ref("agent", r.agent_id)

\* The only relation of the matched work agrees with the node on the agent's
\* name, the order position and the subtype, not on the cited-as name, and
\* the node is left without a match.
C7_Witness ==
    /\ Called("match_agent_work_relations")
    /\ call.outcome = "ok"
    /\ \E n \in Range(call.nodes) :
           /\ Compared(n)
           /\ Cardinality(CandidatesOf(n)) = 1
           /\ \A r \in CandidatesOf(n) :
                  /\ ~ValidFor(n, r)
                  /\ \A k \in 4..8 : SortKeyOf(n, r)[k]
           /\ matches[n] = {}
           /\ matches[Field(graph.node, n, "agent")] = {}

(***************************************************************************)
(* SpecSubjects: match_subjects against every small taxonomy table.        *)
(***************************************************************************)
MaxSubjectRows == 3

U1 == <<"u", "1">>
U2 == <<"u", "2">>

SubjectNodes(uri, name, central_synonym) ==
    [s1 |-> Node(<<"_", ":", "s", "1">>, "subject",
                 [name |-> name, uri |-> uri, central_synonym |-> central_synonym],
                 <<>>),
     s2 |-> Node(<<"_", ":", "s", "2">>, "subject",
                 [name |-> <<"B">>, uri |-> U1, central_synonym |-> None],
                 <<>>)]

SubjectUniverse ==
    {SubjectRow("T1", <<"C">>, U1, None, None),
     SubjectRow("T2", <<"B">>, U2, None, None),
     SubjectRow("T3", <<"B">>, U1, None, Src1),
     SubjectRow("T4", <<"B">>, U1, <<"T1">>, Src1),
     SubjectRow("T5", <<"B">>, U2, <<"T2">>, Src1),
     SubjectRow("T6", <<"B">>, U1, <<"T1">>, <<"src2">>)}

InitSubjects ==
    /\ \E uri \in {None, <<>>, U1}, name \in {None, <<"B">>},
          central_synonym \in {None, <<"s2">>} :
           graph = [members |-> DOMAIN SubjectNodes(uri, name, central_synonym),
                    node |-> SubjectNodes(uri, name, central_synonym)]
    /\ \E rows \in SUBSET SubjectUniverse :
           /\ Cardinality(rows) <= MaxSubjectRows
           /\ store = [work |-> {}, agent |-> {}, awr |-> {}, subject |-> rows]
    /\ source \in {None, Src1}
    /\ matches = NoMatches(graph)
    /\ pre = matches
    /\ call = NoCall

NextSubjects ==
    \/ MatchSubjects
    \/ Return

SpecSubjects == InitSubjects /\ [][NextSubjects]_vars

\* The scope the node is searched in: the central rows for a node without
\* central synonym, else the rows of the configured source.
ScopeOf(n) ==
    IF Field(graph.node, n, "central_synonym") = None
    THEN {row \in store.subject : row.central_synonym_id = None}
    ELSE {row \in store.subject : row.source = source}

RowsWith(n, field_name) ==
    IF Field(graph.node, n, field_name) \in {None, <<>>}
    THEN {}
    ELSE {row \in ScopeOf(n) :
             row[field_name] = Field(graph.node, n, field_name)}

AddedExactly(n, rows) ==
    \E row \in rows : matches[n] = pre[n] \cup {Ref("subject", row.id)}

\* C5: match_subjects adds at most one candidate per node: none for a node
\* with a central synonym when no source is configured; else the row of the
\* scope with the node's URI if the node has a URI and such a row exists;
\* else the row of the scope with the node's name if it has a name and such a
\* row exists; else none.
C5_SubjectChoice ==
    Called("match_subjects") =>
        \A n \in Range(call.nodes) :
            IF Field(graph.node, n, "central_synonym") # None /\ source = None
            THEN matches[n] = pre[n]
            ELSE IF RowsWith(n, "uri") # {}
                 THEN AddedExactly(n, RowsWith(n, "uri"))
                 ELSE IF RowsWith(n, "name") # {}
                      THEN AddedExactly(n, RowsWith(n, "name"))
                      ELSE matches[n] = pre[n]

\* The same of the calls in which no lookup met several rows.
C5_SubjectChoiceUnlessSeveral ==
    (Called("match_subjects") /\ call.outcome = "ok") => C5_SubjectChoice

(***************************************************************************)
(* The identifier normalizer.  IRILink (share.normalize.links) is not part *)
(* of the sources at hand: a URI is the tuple of its lexical parts,        *)
(* <<scheme, "://", authority, path>>, <<"mailto", ":", user, "@", host>>  *)
(* or a bare <<user, "@", host>>; scheme and authority are lower-cased;    *)
(* anything else is a ValueError.                                          *)
(***************************************************************************)
LowerCase ==
    ("HTTP" :> "http") @@ ("Example.com" :> "example.com") @@
    ("ORCID.org" :> "orcid.org") @@ ("MAILTO" :> "mailto")

Lower(token) == IF token \in DOMAIN LowerCase THEN LowerCase[token] ELSE token

IsHierarchical(uri) == Len(uri) = 4 /\ uri[2] = "://"

IsMailto(uri) ==
    Len(uri) = 5 /\ Lower(uri[1]) = "mailto" /\ uri[2] = ":" /\ uri[4] = "@"

IsBareEmail(uri) == Len(uri) = 3 /\ uri[2] = "@"

\* Whether IRILink().execute(uri) returns (else: ValueError).
Parses(uri) ==
    uri # None /\ (IsHierarchical(uri) \/ IsMailto(uri) \/ IsBareEmail(uri))

IRILink(uri) ==
    CASE IsHierarchical(uri) ->
            [scheme |-> Lower(uri[1]), authority |-> Lower(uri[3]),
             IRI |-> <<Lower(uri[1]), "://", Lower(uri[3]), uri[4]>>]
      [] IsMailto(uri) ->
            [scheme |-> "mailto", authority |-> Lower(uri[5]),
             IRI |-> <<"mailto", ":", uri[3], "@", Lower(uri[5])>>]
      [] IsBareEmail(uri) ->
            [scheme |-> "mailto", authority |-> Lower(uri[3]),
             IRI |-> <<"mailto", ":", uri[1], "@", Lower(uri[3])>>]

\* graph.remove(node)
GraphRemove(g, node) == [g EXCEPT !.members = @ \ {node}]

NormalizedAttrs(ret) ==
    [uri |-> ret.IRI, host |-> <<ret.authority>>, scheme |-> <<ret.scheme>>]

\* AgentIdentifier.normalize
AgentIdentifier_normalize(g, node) ==
    IF ~Parses(g.node[node].attrs.uri)
    THEN GraphRemove(g, node)
    ELSE [g EXCEPT !.node[node].attrs =
             NormalizedAttrs(IRILink(g.node[node].attrs.uri))]

\* The mutant checks the authority only.
WorkIdentifier_normalize_authority_only(g, node) ==
    IF ~Parses(g.node[node].attrs.uri)
    THEN GraphRemove(g, node)
    ELSE LET ret == IRILink(g.node[node].attrs.uri)
         IN IF ret.authority \in {"issn", "orcid.org"}
            THEN GraphRemove(g, node)
            ELSE [g EXCEPT !.node[node].attrs = NormalizedAttrs(ret)]

\* WorkIdentifier.normalize
WorkIdentifier_normalize(g, node) ==
    IF ~Parses(g.node[node].attrs.uri)
    THEN GraphRemove(g, node)
    ELSE LET ret == IRILink(g.node[node].attrs.uri)
         IN IF ret.authority \in {"issn", "orcid.org"} \/ ret.scheme \in {"mailto"}
            THEN GraphRemove(g, node)
            ELSE [g EXCEPT !.node[node].attrs = NormalizedAttrs(ret)]

RawUris ==
    {<<"http", "://", "example.com", "/Foo">>,
     <<"HTTP", "://", "Example.com", "/Foo">>,
     <<"http", "://", "ORCID.org", "/0000-0001">>,
     <<"urn", "://", "issn", "/1234-5678">>,
     <<"MAILTO", ":", "jo", "@", "Example.com">>,
     <<"jo", "@", "cos.io">>,
     <<"Foo">>}

IdentifierNodes(work_attrs, agent_uri) ==
    [w |-> Node(<<"_", ":", "w">>, "creativework", <<>>, [identifiers |-> {"i1"}]),
     a1 |-> Node(<<"_", ":", "a", "1">>, "person", [name |-> JoS],
                 [identifiers |-> {"i2"}]),
     i1 |-> Node(<<"_", ":", "i", "1">>, "workidentifier", work_attrs,
                 [creative_work |-> "w"]),
     i2 |-> Node(<<"_", ":", "i", "2">>, "agentidentifier", [uri |-> agent_uri],
                 [agent |-> "a1"])]

InitNorm ==
    /\ \E uri \in RawUris, agent_uri \in RawUris :
        \E work_attrs \in {[uri |-> uri],
                            [uri |-> uri, host |-> <<"example.com">>,
                             scheme |-> <<"http">>, label |-> <<"x">>]} :
           graph = [members |-> DOMAIN IdentifierNodes(work_attrs, agent_uri),
                    node |-> IdentifierNodes(work_attrs, agent_uri)]
    /\ store = [work |-> {}, agent |-> {}, awr |-> {}, subject |-> {}]
    /\ source = None
    /\ matches = NoMatches(graph)
    /\ pre = matches
    /\ call = NoCall

\* One whole call of normalize(node, graph).
Normalize(op, node, after) ==
    /\ graph' = after
    /\ call' = Call(op, <<node>>, graph.node[node].type, <<>>, {},
                     [before |-> graph.node[node].attrs], Done(matches))
    /\ pre' = matches
    /\ UNCHANGED <<store, source, matches>>

NormalizeWorkIdentifier ==
    /\ Idle
    /\ \E node \in NodesOfType({"workidentifier"}) :
           Normalize("WorkIdentifier.normalize", node,
                     WorkIdentifier_normalize(graph, node))

NormalizeAgentIdentifier ==
    /\ Idle
    /\ \E node \in NodesOfType({"agentidentifier"}) :
           Normalize("AgentIdentifier.normalize", node,
                     AgentIdentifier_normalize(graph, node))

NextNorm ==
    \/ NormalizeWorkIdentifier
    \/ NormalizeAgentIdentifier
    \/ Return

SpecNorm == InitNorm /\ [][NextNorm]_vars

\* What the URI the node had when normalize was called parses to.
SchemeBefore == IRILink(call.env.before.uri).scheme

AuthorityBefore == IRILink(call.env.before.uri).authority

Disallowed ==
    /\ Parses(call.env.before.uri)
    /\ SchemeBefore = "mailto" \/ AuthorityBefore \in {"issn", "orcid.org"}

\* C8: WorkIdentifier.normalize removes the node from the graph, its
\* attributes as they were, when its URI parses to the scheme mailto or to the
\* authority issn or orcid.org, whatever other attributes it has; a node that
\* stays in the graph has another scheme and another host.
C8_WorkIdentifierRejection ==
    Called("WorkIdentifier.normalize") =>
        LET node == call.nodes[1]
        IN /\ Disallowed =>
                  /\ node \notin graph.members
                  /\ graph.node[node].attrs = call.env.before
           /\ node \in graph.members =>
                  /\ graph.node[node].attrs.scheme # <<"mailto">>
                  /\ graph.node[node].attrs.host \notin {<<"issn">>, <<"orcid.org">>}
                  /\ DOMAIN graph.node[node].attrs = {"uri", "host", "scheme"}

\* A bare e-mail address on a node that claims the scheme http: removed.
C8_Witness ==
    /\ Called("WorkIdentifier.normalize")
    /\ Disallowed
    /\ SchemeBefore = "mailto"
    /\ AuthorityBefore \notin {"issn", "orcid.org"}
    /\ "label" \in DOMAIN call.env.before
    /\ call.env.before.scheme = <<"http">>
    /\ call.nodes[1] \notin graph.members

====
